---- MODULE Spec2Model ----
(***************************************************************************)
(* Beatly backend: the stem-separation pipeline (services/analysis.py,     *)
(* routes/tracks.py, routes/uploads.py), the analysis cache and the        *)
(* smart-order route (routes/playlists.py), as state machines.             *)
(*                                                                         *)
(* Files are modelled as the operating system presents them: open(..,"w")  *)
(* truncates at once, the buffered text is written at offset 0 when the    *)
(* file is closed, and a read returns the bytes present at that moment.    *)
(* A JSON document is a sequence of cells, one per member, framed by the   *)
(* two brace cells; json.load accepts exactly the well-framed sequences.   *)
(***************************************************************************)
EXTENDS Integers, Sequences, FiniteSets, TLC

\* ------------------------------------------------------------------ bounds
MaxReqs == 2
NumWorkers == 2
NumTracks == 4
MaxPlaylist == 4
MaxJobs == 3
BufferCells == 35

Reqs == 1..MaxReqs
Workers == 1..NumWorkers
TrackIds == 1..NumTracks
Jobs == 1..MaxJobs

\* ------------------------------------------------------------------ JSON files
LBrace == <<"{", "{">>
RBrace == <<"}", "}">>
NoFile == [exists |-> FALSE, data |-> <<>>]

\* What a read finds where a write landed beyond the end of the file.
Hole == <<"nul", "nul">>

\* Members whose value is a list, and members whose value is a dict (with the
\* insertion order of its own members), in the records the program writes.
ListKeys == {"energyCurve", "downbeats", "beats", "drops", "peaks", "phraseMarkers"}
DictKeys == {"beatGrid"}
NestedOrder == [k \in DictKeys |-> <<"bpm", "downbeats", "beats", "barLength">>]

\* The cells of the members of d, from the i-th name of order on: a scalar is
\* one cell, a list is one cell per item between its brackets, a dict is its
\* own members between its braces.
RECURSIVE Cells(_, _, _)
Cells(order, d, i) ==
    IF i > Len(order) THEN <<>>
    ELSE LET k == order[i]
             here ==
                 IF k \notin DOMAIN d THEN <<>>
                 ELSE IF k \in ListKeys
                      THEN <<<<"[", k>>>>
                           \o [n \in 1..Len(d[k]) |-> <<"item", d[k][n]>>]
                           \o <<<<"]", k>>>>
                 ELSE IF k \in DictKeys
                      THEN <<<<"{", k>>>> \o Cells(NestedOrder[k], d[k], 1) \o <<<<"}", k>>>>
                 ELSE <<<<k, d[k]>>>>
         IN  here \o Cells(order, d, i + 1)

\* json.dump of a dict: its members in insertion order between braces.
Dump(order, d) == <<LBrace>> \o Cells(order, d, 1) \o <<RBrace>>

\* The cell that closes the list or dict opened at cell i.
Closer(data, i) == <<IF data[i][1] = "[" THEN "]" ELSE "}", data[i][2]>>

\* What json.load accepts: one object, every list and dict in it closed, and
\* nothing after it.
WellFormed(data) ==
    /\ Len(data) >= 2
    /\ data[1] = LBrace
    /\ data[Len(data)] = RBrace
    /\ \A i \in 2..(Len(data) - 1) :
          /\ data[i] # LBrace
          /\ data[i] # RBrace
          /\ data[i] # Hole
          /\ data[i][1] \in {"[", "{"} =>
                \E e \in (i + 1)..(Len(data) - 1) : data[e] = Closer(data, i)

\* The dict of the members in cells i..j; a repeated name keeps its last value.
RECURSIVE Members(_, _, _)
Members(data, i, j) ==
    IF i > j THEN <<>>
    ELSE LET c == data[i]
             e == IF c[1] \in {"[", "{"}
                  THEN CHOOSE x \in (i + 1)..j :
                          /\ data[x] = Closer(data, i)
                          /\ \A y \in (i + 1)..(x - 1) : data[y] # Closer(data, i)
                  ELSE i
             k == IF c[1] \in {"[", "{"} THEN c[2] ELSE c[1]
             v == IF c[1] = "[" THEN [n \in 1..(e - i - 1) |-> data[i + n][2]]
                  ELSE IF c[1] = "{" THEN Members(data, i + 1, e - 1)
                  ELSE c[2]
         IN  Members(data, e + 1, j) @@ (k :> v)

\* json.load of a well-formed document.
Load(data) == Members(data, 2, Len(data) - 1)

\* Variant: an open that keeps the content. C12 does not hold of it.
KeepContent(file) == [exists |-> TRUE, data |-> file.data]

\* open(path, "w"): the file exists and is empty from this moment.
Truncate(file) == [exists |-> TRUE, data |-> <<>>]

\* close() of a file opened with "w": the buffered text lands at offset 0,
\* over whatever another writer has put there since the truncation.
WriteAtZero(file, text) ==
    [exists |-> TRUE,
     data |-> text \o SubSeq(file.data, Len(text) + 1, Len(file.data))]

\* A write of text at offset off: it fills the gap up to off, if the file is
\* shorter, and replaces what it covers.
WriteAt(file, off, text) ==
    [exists |-> TRUE,
     data |-> [i \in 1..off |-> IF i <= Len(file.data) THEN file.data[i] ELSE Hole]
              \o text
              \o SubSeq(file.data, off + Len(text) + 1, Len(file.data))]

\* ------------------------------------------------------------------ keys
\* Text is a sequence of characters. Numbers are exact decimals held as
\* integers: BPM in tenths, energy and curve values in thousandths, times in
\* milliseconds (the precisions the analysis record is rounded to).
Minor == <<"m", "i", "n", "o", "r">>
Major == <<"m", "a", "j", "o", "r">>
KeyName(root, mode) == root \o <<" ">> \o mode

pitch_classes ==
    << <<"C">>, <<"C", "#">>, <<"D">>, <<"D", "#">>, <<"E">>, <<"F">>, <<"F", "#">>,
       <<"G">>, <<"G", "#">>, <<"A">>, <<"A", "#">>, <<"B">> >>

\* CAMELOT_MAP as rows <<root, Camelot number of the minor key, of the major key>>.
CamelotRows ==
    { << <<"A">>, 8, 11 >>, << <<"A", "#">>, 3, 6 >>, << <<"B", "b">>, 3, 6 >>,
      << <<"B">>, 10, 1 >>, << <<"C">>, 5, 8 >>, << <<"C", "#">>, 12, 3 >>,
      << <<"D", "b">>, 12, 3 >>, << <<"D">>, 7, 10 >>, << <<"D", "#">>, 2, 5 >>,
      << <<"E", "b">>, 2, 5 >>, << <<"E">>, 9, 12 >>, << <<"F">>, 4, 7 >>,
      << <<"F", "#">>, 11, 4 >>, << <<"G", "b">>, 11, 4 >>, << <<"G">>, 6, 9 >>,
      << <<"G", "#">>, 1, 2 >>, << <<"A", "b">>, 1, 2 >> }

\* The key names CAMELOT_MAP (and KEY_SHORT_NAMES) has an entry for.
KeyNames ==
    {KeyName(row[1], Minor) : row \in CamelotRows}
        \cup {KeyName(row[1], Major) : row \in CamelotRows}

\* Variant: a map with the sharp spellings only; a flat spelling gets the
\* default. C26 does not hold of it.
CamelotSharpsOnly(name) ==
    LET rows == {row \in CamelotRows : Len(row[1]) = 1 \/ row[1][2] = "#"}
    IN  IF \E row \in rows : name = KeyName(row[1], Minor)
        THEN <<(CHOOSE row \in rows : name = KeyName(row[1], Minor))[2], "A">>
        ELSE IF \E row \in rows : name = KeyName(row[1], Major)
        THEN <<(CHOOSE row \in rows : name = KeyName(row[1], Major))[3], "B">>
        ELSE <<8, "A">>

\* CAMELOT_MAP.get(name, (8, "A")).
CAMELOT_MAP(name) ==
    IF \E row \in CamelotRows : name = KeyName(row[1], Minor)
    THEN <<(CHOOSE row \in CamelotRows : name = KeyName(row[1], Minor))[2], "A">>
    ELSE IF \E row \in CamelotRows : name = KeyName(row[1], Major)
    THEN <<(CHOOSE row \in CamelotRows : name = KeyName(row[1], Major))[3], "B">>
    ELSE <<8, "A">>

\* KEY_SHORT_NAMES.get(name, fallback): the root, with "m" appended when minor.
KEY_SHORT_NAMES(name, fallback) ==
    IF \E row \in CamelotRows : name = KeyName(row[1], Minor)
    THEN (CHOOSE row \in CamelotRows : name = KeyName(row[1], Minor))[1] \o <<"m">>
    ELSE IF \E row \in CamelotRows : name = KeyName(row[1], Major)
    THEN (CHOOSE row \in CamelotRows : name = KeyName(row[1], Major))[1]
    ELSE fallback

\* normalize_key (the keys of the model carry no surrounding blanks).
normalize_key(key) ==
    IF Len(key) > 0 /\ key[Len(key)] = "m" /\ \A i \in 1..Len(key) : key[i] # " "
    THEN SubSeq(key, 1, Len(key) - 1) \o <<" ">> \o Minor
    ELSE IF \A i \in 1..Len(key) : key[i] # " "
    THEN key \o <<" ">> \o Major
    ELSE key

\* ------------------------------------------------------------------ scorer
Abs(x) == IF x < 0 THEN -x ELSE x
Min(x, y) == IF x < y THEN x ELSE y
Max(x, y) == IF x > y THEN x ELSE y

\* The tier of the BPM score: 100, 95, 85, 70, 80 (half or double time), or 0
\* for the linear branch max(10, 50 - bpm_diff). With bpm_b <= 0 the ratio is 1.
\* bpm_diff < c is |1 - a/b| * 100 < c, i.e. 100 * |b - a| < c * b.
BpmTier(a, b) ==
    IF b <= 0 THEN 100
    ELSE IF 100 * Abs(b - a) < 1 * b THEN 100
    ELSE IF 100 * Abs(b - a) < 3 * b THEN 95
    ELSE IF 100 * Abs(b - a) < 6 * b THEN 85
    ELSE IF 100 * Abs(b - a) < 10 * b THEN 70
    ELSE IF Min(100 * Abs(b - 2 * a), 50 * Abs(2 * b - a)) < 6 * b THEN 80
    ELSE 0

\* 40 * b * bpm_score, an integer: bpm_score * 0.4 as a fraction over 100 * b.
BpmPart(a, b) ==
    LET d == IF b <= 0 THEN 1 ELSE b
    IN  IF BpmTier(a, b) # 0 THEN 40 * d * BpmTier(a, b)
        ELSE Max(40 * d * 10, 40 * (50 * d - 100 * Abs(d - a)))

\* Variant: the difference of the numbers, not taken around the wheel. C25
\* does not hold of it.
LinearDistance(num_a, num_b) == Abs(num_a - num_b)

\* distance = min(abs(num_a - num_b), 12 - abs(num_a - num_b)).
CamelotDistance(num_a, num_b) == Min(Abs(num_a - num_b), 12 - Abs(num_a - num_b))

\* Variant: no branch for the identical Camelot position. C17 does not hold of it.
KeyScoreByNumber(ka, kb) ==
    LET ca == CAMELOT_MAP(normalize_key(ka))
        cb == CAMELOT_MAP(normalize_key(kb))
        distance == Min(Abs(ca[1] - cb[1]), 12 - Abs(ca[1] - cb[1]))
    IN  IF ca[1] = cb[1] THEN 80
        ELSE IF distance = 1 /\ ca[2] = cb[2] THEN 90
        ELSE IF distance = 1 THEN 65
        ELSE IF distance <= 2 THEN 55
        ELSE Max(20, 50 - distance * 5)

\* Variant: adjacent numbers score 90 whatever the modes. C21 does not hold
\* of it.
KeyScoreModeBlind(ka, kb) ==
    LET ca == CAMELOT_MAP(normalize_key(ka))
        cb == CAMELOT_MAP(normalize_key(kb))
        distance == CamelotDistance(ca[1], cb[1])
    IN  IF ca[1] = cb[1] /\ ca[2] = cb[2] THEN 100
        ELSE IF ca[1] = cb[1] THEN 80
        ELSE IF distance = 1 THEN 90
        ELSE IF distance <= 2 THEN 55
        ELSE Max(20, 50 - distance * 5)

\* The key score from the two Camelot positions.
KeyScore(ka, kb) ==
    LET ca == CAMELOT_MAP(normalize_key(ka))
        cb == CAMELOT_MAP(normalize_key(kb))
        distance == CamelotDistance(ca[1], cb[1])
    IN  IF ca[1] = cb[1] /\ ca[2] = cb[2] THEN 100
        ELSE IF ca[1] = cb[1] THEN 80
        ELSE IF distance = 1 /\ ca[2] = cb[2] THEN 90
        ELSE IF distance = 1 THEN 65
        ELSE IF distance <= 2 THEN 55
        ELSE Max(20, 50 - distance * 5)

\* Variant: the energy score of the size of the change, whatever its
\* direction. C18 does not hold of it.
EnergyScoreSymmetric(ea, eb) ==
    IF Abs(eb - ea) < 150 THEN 100
    ELSE IF Abs(eb - ea) < 300 THEN 85
    ELSE IF Abs(eb - ea) < 500 THEN 55
    ELSE 40

\* Variant: the test for a similar energy comes first. C22 does not hold of it.
EnergyScoreSimilarFirst(ea, eb) ==
    LET energy_diff == eb - ea
    IN  IF Abs(energy_diff) < 100 THEN 95
        ELSE IF 0 <= energy_diff /\ energy_diff < 150 THEN 100
        ELSE IF 150 <= energy_diff /\ energy_diff < 300 THEN 85
        ELSE IF -150 <= energy_diff /\ energy_diff < 0 THEN 80
        ELSE IF Abs(energy_diff) < 300 THEN 70
        ELSE IF Abs(energy_diff) < 500 THEN 55
        ELSE 40

\* The energy score from energy_b - energy_a (thousandths).
EnergyScore(ea, eb) ==
    LET energy_diff == eb - ea
    IN  IF 0 <= energy_diff /\ energy_diff < 150 THEN 100
        ELSE IF Abs(energy_diff) < 100 THEN 95
        ELSE IF 150 <= energy_diff /\ energy_diff < 300 THEN 85
        ELSE IF -150 <= energy_diff /\ energy_diff < 0 THEN 80
        ELSE IF Abs(energy_diff) < 300 THEN 70
        ELSE IF Abs(energy_diff) < 500 THEN 55
        ELSE 40

\* calculate_compatibility_score: int() of the weighted sum, which is
\* non-negative, so the truncation is the floor.
calculate_compatibility_score(analysis_a, analysis_b) ==
    LET a == analysis_a["bpm"]
        b == analysis_b["bpm"]
        d == IF b <= 0 THEN 1 ELSE b
        rest == 35 * KeyScore(analysis_a["key"], analysis_b["key"])
                  + 25 * EnergyScore(analysis_a["energy"], analysis_b["energy"])
    IN  (BpmPart(a, b) + rest * d) \div (100 * d)

\* Variant: the last branch without its floor of 10. C24 does not hold of it.
MixBpmScoreNoFloor(a, b) ==
    IF BpmTier(a, b) # 0 THEN BpmTier(a, b)
    ELSE 50 - ((100 * Abs(b - a)) \div b)

\* calculate_mix_compatibility, the BPM score: the same tiers, and
\* max(10, 50 - int(bpm_diff)) in the linear branch (bpm_diff >= 10 there, so
\* int() is the floor).
MixBpmScore(a, b) ==
    IF BpmTier(a, b) # 0 THEN BpmTier(a, b)
    ELSE Max(10, 50 - ((100 * Abs(b - a)) \div b))

\* Variant: each tier starts just above its threshold. C23 does not hold of it.
RecommendationAbove(overall_score) ==
    IF overall_score > 90 THEN "Perfect match! These tracks will blend seamlessly."
    ELSE IF overall_score > 80 THEN "Great mix! Minor adjustments may be needed."
    ELSE IF overall_score > 70 THEN "Good mix. Consider tempo sync and EQ adjustments."
    ELSE IF overall_score > 60
    THEN "Challenging mix. Use longer transition or different technique."
    ELSE IF overall_score > 50 THEN "Difficult mix. Consider using a bridge track."
    ELSE "Not recommended. These tracks may clash."

\* The recommendation text of an overall score.
Recommendation(overall_score) ==
    IF overall_score >= 90 THEN "Perfect match! These tracks will blend seamlessly."
    ELSE IF overall_score >= 80 THEN "Great mix! Minor adjustments may be needed."
    ELSE IF overall_score >= 70 THEN "Good mix. Consider tempo sync and EQ adjustments."
    ELSE IF overall_score >= 60
    THEN "Challenging mix. Use longer transition or different technique."
    ELSE IF overall_score >= 50 THEN "Difficult mix. Consider using a bridge track."
    ELSE "Not recommended. These tracks may clash."

\* int(bpm_score * 0.4 + key_score * 0.35 + energy_score * 0.25) of three
\* integer scores.
MixOverall(bpm_score, key_score, energy_score) ==
    (40 * bpm_score + 35 * key_score + 25 * energy_score) \div 100

\* calculate_mix_compatibility: the overall score and its breakdown.
calculate_mix_compatibility(analysis_a, analysis_b) ==
    LET bpm_score == MixBpmScore(analysis_a["bpm"], analysis_b["bpm"])
        key_score == KeyScore(analysis_a["key"], analysis_b["key"])
        energy_score == EnergyScore(analysis_a["energy"], analysis_b["energy"])
        overall_score == MixOverall(bpm_score, key_score, energy_score)
    IN  [score |-> overall_score,
         bpmMatch |-> bpm_score,
         keyMatch |-> key_score,
         energyFlow |-> energy_score,
         recommendation |-> Recommendation(overall_score)]

\* ------------------------------------------------------------------ analysis record
\* Integer division rounded to the nearest integer (q > 0, p >= 0).
RoundDiv(p, q) == (2 * p + q) \div (2 * q)

RECURSIVE SumSeq(_, _, _)
SumSeq(seq, i, j) == IF i > j THEN 0 ELSE seq[i] + SumSeq(seq, i + 1, j)

MaxOf(seq) == CHOOSE m \in {seq[i] : i \in 1..Len(seq)} : \A i \in 1..Len(seq) : seq[i] <= m

\* The items of seq at the positions in idx, in their order in seq.
RECURSIVE Pick(_, _, _)
Pick(seq, idx, i) ==
    IF i > Len(seq) THEN <<>>
    ELSE (IF i \in idx THEN <<seq[i]>> ELSE <<>>) \o Pick(seq, idx, i + 1)

Take(seq, n) == SubSeq(seq, 1, Min(n, Len(seq)))

\* "beat_times[::4] if len(beat_times) >= 4 else beat_times".
Downbeats(beat_times) ==
    IF Len(beat_times) >= 4
    THEN Pick(beat_times, {i \in 1..Len(beat_times) : (i - 1) % 4 = 0}, 1)
    ELSE beat_times

\* The energy curve before normalisation: the RMS frames, averaged over
\* chunks of len(rms) // 100 frames when that is positive.
RawCurve(rms) ==
    LET chunk_size == Len(rms) \div 100
    IN  IF chunk_size > 0
        THEN [c \in 1..((Len(rms) + chunk_size - 1) \div chunk_size) |->
                 LET lo == (c - 1) * chunk_size + 1
                     hi == Min(c * chunk_size, Len(rms))
                 IN  SumSeq(rms, lo, hi) \div (hi - lo + 1)]
        ELSE rms

\* The indices (0-based, as in the source) at which a drop is detected:
\* "for i in range(1, len(energy_curve) - 1)" with the two threshold tests on
\* the curve normalised by its maximum.
DropIndices(curve) ==
    {i \in 1..(Len(curve) - 2) :
        /\ 10 * curve[i + 1] < 3 * MaxOf(curve)
        /\ 10 * curve[i + 2] > 6 * MaxOf(curve)}

\* The peak positions kept: all of them, or the 20 strongest (the last 20 of
\* argsort) when there are more than 20.
PeaksKept(peaks) ==
    IF Len(peaks) > 20
    THEN {i \in 1..Len(peaks) :
            Cardinality({j \in 1..Len(peaks) :
                \/ peaks[j].strength > peaks[i].strength
                \/ peaks[j].strength = peaks[i].strength /\ j > i}) < 20}
    ELSE 1..Len(peaks)

\* The phrase markers: from the first beat, every (60 / bpm) * 4 * 16 seconds
\* while below the duration; none when bpm <= 0 or there is no beat.
PhraseMarkers(bpm, beat_times, duration) ==
    IF bpm > 0 /\ Len(beat_times) > 0
    THEN LET first == beat_times[1]
             count == IF first >= duration THEN 0
                      ELSE ((duration - first) * bpm - 1) \div 38400000 + 1
         IN  [n \in 1..count |-> RoundDiv(first * bpm + (n - 1) * 38400000, bpm)]
    ELSE <<>>

\* Variant: an extractor that answers for every input. C14 does not hold of it.
NeverRaises(f) == FALSE

\* analyze_audio raises: the file cannot be decoded, or the energy curve is
\* all zero and its normalisation divides by zero.
analyze_audio_raises(f) ==
    \/ f.undecodable
    \/ Len(f.rms) > 0 /\ MaxOf(RawCurve(f.rms)) = 0

\* analyze_audio: the record built from the extractor's output f.
analyze_audio(track_id, f) ==
    LET bpm == IF Len(f.tempo) > 0 THEN f.tempo[1] ELSE 1200
        key_mode == IF f.major_corr > f.minor_corr THEN Major ELSE Minor
        root == pitch_classes[f.key_index + 1]
        key_name == KeyName(root, key_mode)
        raw == RawCurve(f.rms)
        energy_curve == [i \in 1..Len(raw) |-> RoundDiv(1000 * raw[i], MaxOf(raw))]
        drops == Pick([i \in 1..Len(raw) |-> RoundDiv((i - 1) * f.duration, Len(raw))],
                      {i + 1 : i \in DropIndices(raw)}, 1)
        peaks == Pick([i \in 1..Len(f.peaks) |-> f.peaks[i].time], PeaksKept(f.peaks), 1)
    IN  [trackId |-> track_id,
         bpm |-> bpm,
         key |-> KEY_SHORT_NAMES(key_name, root),
         keyNumber |-> CAMELOT_MAP(key_name)[1],
         keyMode |-> key_mode,
         energy |-> Min(1000, f.rms_mean),
         energyCurve |-> Take(energy_curve, 100),
         beatGrid |-> [bpm |-> bpm,
                       downbeats |-> Take(Downbeats(f.beat_times), 50),
                       beats |-> Take(f.beat_times, 200),
                       barLength |-> 4],
         drops |-> Take(drops, 10),
         peaks |-> Take(peaks, 20),
         phraseMarkers |-> Take(PhraseMarkers(bpm, f.beat_times, f.duration), 20)]

AnalysisOrder ==
    <<"trackId", "bpm", "key", "keyNumber", "keyMode", "energy", "energyCurve",
      "beatGrid", "drops", "peaks", "phraseMarkers">>

\* Extractor outputs the model draws from. rms_mean is the mean RMS in units
\* of 0.0001 (so that rms_mean / 0.1 is in thousandths), rms the frames.
Feature(tempo, beats, key_index, major, rms_mean, rms, duration) ==
    [tempo |-> tempo, beat_times |-> beats, key_index |-> key_index,
     major_corr |-> IF major THEN 1 ELSE 0, minor_corr |-> IF major THEN 0 ELSE 1,
     rms_mean |-> rms_mean, rms |-> rms,
     peaks |-> <<[time |-> 1000, strength |-> 3], [time |-> 9000, strength |-> 5]>>,
     duration |-> duration, undecodable |-> FALSE]

Features ==
    << Feature(<<1280>>, <<0, 469, 938, 1406, 1875>>, 9, FALSE, 500,
               <<100, 500, 200, 700, 1000>>, 40000),
       Feature(<<1280>>, <<250, 719>>, 4, FALSE, 580, <<300, 600>>, 20000),
       Feature(<<1260>>, <<100, 576, 1052, 1528>>, 9, FALSE, 370,
               <<800, 100, 900>>, 30000) >>

\* The extractor's output for a track of the model.
FeaturesOf(track_id) == Features[((track_id - 1) % Len(Features)) + 1]

\* ------------------------------------------------------------------ state
VARIABLES
    statusFile,       \* stems/<track>/status.json
    stemFiles,        \* the <stem>.wav files present in stems/<track>/
    demucsOut,        \* the <stem>.wav files present in the Demucs output folder
    demucsInstalled,  \* whether "import demucs.separate" succeeds in this deployment
    tracksDb,         \* the workers whose in-memory _tracks_db holds the track
    req,              \* the stem requests: position, route, worker, locals, response
    lastPoll,         \* what the last status poll answered
    cacheFile,        \* analysis/<track>.json, per track id
    so,               \* the smart-order request: position, playlist, locals, response
    job,              \* the analysis requests: position, route, worker, locals, response
    call,             \* the last request served one at a time: route, arguments, response
    sc                \* the scorer call: position, the two records, the two results

stemVars == <<statusFile, stemFiles, demucsOut, demucsInstalled, tracksDb, req, lastPoll>>

vars ==
    <<statusFile, stemFiles, demucsOut, demucsInstalled, tracksDb, req, lastPoll,
      cacheFile, so, job, call, sc>>

\* ------------------------------------------------------------------ analysis cache
\* get_cached_analysis: None when the file is absent, else json.load of it.
get_cached_analysis(file) ==
    IF ~file.exists THEN [kind |-> "none", val |-> <<>>]
    ELSE IF WellFormed(file.data) THEN [kind |-> "ok", val |-> Load(file.data)]
    ELSE [kind |-> "raise", val |-> <<>>]

\* "if analysis:" / "if cached:": a dict with at least one member.
Truthy(got) == got.kind = "ok" /\ DOMAIN got.val # {}

\* The file cache_analysis leaves when nothing interferes.
CachedFile(track_id) ==
    [exists |-> TRUE, data |-> Dump(AnalysisOrder, analyze_audio(track_id, FeaturesOf(track_id)))]

CacheEmpty == cacheFile = [t \in TrackIds |-> NoFile]

IdleJob ==
    [pc |-> "idle", route |-> "none", worker |-> 0, result |-> <<>>, text |-> <<>>,
     off |-> 0, resp |-> [kind |-> "none", val |-> <<>>]]

JobsIdle == job = [j \in Jobs |-> IdleJob]

NoResponse == [kind |-> "none", val |-> <<>>]

CallIdle ==
    call = [route |-> "none", track |-> 0, other |-> 0, audio |-> <<>>,
            prev |-> NoResponse, resp |-> NoResponse]

ScoreIdle == sc = [pc |-> "idle", a |-> <<>>, b |-> <<>>, score |-> 0, mix |-> <<>>]

\* ------------------------------------------------------------------ smart order
Playlists == UNION {[1..n -> TrackIds] : n \in 0..MaxPlaylist}

OrderIdle ==
    so = [pc |-> "idle", tracks |-> <<>>, order |-> <<>>, scores |-> <<>>,
          remaining |-> <<>>, current |-> <<>>, placed |-> <<>>, message |-> "none",
          calls |-> 0]

\* "for track in tracks: ... if analysis: track_analyses.append(...)". pos is
\* the entry's index in the playlist; the source does not keep it, the
\* properties of the order are stated with it.
RECURSIVE TrackAnalyses(_, _)
TrackAnalyses(tracks, i) ==
    IF i > Len(tracks) THEN <<>>
    ELSE LET analysis == get_cached_analysis(cacheFile[tracks[i]])
         IN  (IF Truthy(analysis)
              THEN <<[track_id |-> tracks[i], analysis |-> analysis.val, pos |-> i]>>
              ELSE <<>>)
             \o TrackAnalyses(tracks, i + 1)

\* Variant: the early return only for an empty list. C10 does not hold of it.
NoneAnalyzed(track_analyses) == Len(track_analyses) < 1

\* "if len(track_analyses) < 2".
NotEnoughAnalyzed(track_analyses) == Len(track_analyses) < 2

\* The score the loop computes for a candidate.
CandidateScore(current, candidate) ==
    calculate_compatibility_score(current.analysis, candidate.analysis)

\* Variant: a later candidate of equal score replaces the best. C9 does not
\* hold of it.
BetterOrEqual(score, best_score) == score >= best_score

\* "if score > best_score".
Better(score, best_score) == score > best_score

\* The inner for loop from candidate i on: <<best_score, best_index>>
\* (best_index 0-based, as in the source).
RECURSIVE BestOf(_, _, _, _)
BestOf(current, remaining, i, best) ==
    IF i > Len(remaining) THEN best
    ELSE LET score == CandidateScore(current, remaining[i])
         IN  BestOf(current, remaining, i + 1,
                    IF Better(score, best[1]) THEN <<score, i - 1>> ELSE best)

\* Variant: a pop that takes the first item whatever the index. C28 does not
\* hold of it.
WithoutFirst(seq, index) == SubSeq(seq, 2, Len(seq))

\* list.pop(index) leaves the other items in order.
Without(seq, index) == SubSeq(seq, 1, index) \o SubSeq(seq, index + 2, Len(seq))

\* The request arrives and the playlist is fetched from SoundCloud: a 200 with
\* the tracks, or another status, which is passed on as an HTTP error.
smart_order_fetch ==
    /\ so.pc = "start"
    /\ \/ so' = [so EXCEPT !.pc = "gather"]
       \/ so' = [so EXCEPT !.pc = "failed", !.message = "Failed to fetch playlist"]
    /\ UNCHANGED <<stemVars, cacheFile, job, call, sc>>

\* Lines 210-232: collect the analyses; with fewer than two return the
\* original order, else start the greedy walk at the first analyzed track.
smart_order_gather ==
    /\ so.pc = "gather"
    /\ IF \E i \in 1..Len(so.tracks) :
             get_cached_analysis(cacheFile[so.tracks[i]]).kind = "raise"
       THEN so' = [so EXCEPT !.pc = "failed", !.message = "Internal Server Error"]
       ELSE LET track_analyses == TrackAnalyses(so.tracks, 1)
            IN  IF NotEnoughAnalyzed(track_analyses)
                THEN so' = [so EXCEPT !.pc = "done", !.order = so.tracks,
                                      !.scores = <<>>,
                                      !.message = "Not enough tracks analyzed for smart ordering"]
                ELSE so' = [so EXCEPT !.pc = "loop",
                                      !.order = <<track_analyses[1].track_id>>,
                                      !.placed = <<track_analyses[1].pos>>,
                                      !.scores = <<>>,
                                      !.current = track_analyses[1],
                                      !.remaining = Without(track_analyses, 0)]
    /\ UNCHANGED <<stemVars, cacheFile, job, call, sc>>

\* One turn of "while remaining": score every candidate against current, pop
\* the best, record the edge score under "from->to", append, move on.
smart_order_pick ==
    /\ so.pc = "loop"
    /\ so.remaining # <<>>
    /\ LET best == BestOf(so.current, so.remaining, 1, <<-1, 0>>)
           next_track == so.remaining[best[2] + 1]
       IN  so' = [so EXCEPT !.remaining = Without(so.remaining, best[2]),
                            !.scores = (<<so.current.track_id, next_track.track_id>>
                                           :> best[1]) @@ so.scores,
                            !.order = Append(so.order, next_track.track_id),
                            !.placed = Append(so.placed, next_track.pos),
                            !.current = next_track,
                            !.calls = so.calls + Len(so.remaining)]
    /\ UNCHANGED <<stemVars, cacheFile, job, call, sc>>

\* "return {'order': order, 'scores': scores}" once remaining is empty.
smart_order_return ==
    /\ so.pc = "loop"
    /\ so.remaining = <<>>
    /\ so' = [so EXCEPT !.pc = "done"]
    /\ UNCHANGED <<stemVars, cacheFile, job, call, sc>>

NextOrder ==
    \/ smart_order_fetch
    \/ smart_order_gather
    \/ smart_order_pick
    \/ smart_order_return

\* ------------------------------------------------------------------ stem status records
TrackId == 1
StemNames == <<"drums", "bass", "vocals", "other">>
Stems == {StemNames[i] : i \in 1..Len(StemNames)}
StatusOrder == <<"trackId", "status", "drums", "bass", "vocals", "other", "error">>
StemUrl == [s \in Stems |-> <<"/api/tracks", TrackId, "stems", s>>]

\* Variant: a processing record that keeps the message of the failed cycle
\* before it. C8 does not hold of it.
ProcessingStatusStale ==
    [trackId |-> TrackId, status |-> "processing", error |-> "Demucs failed"]

ProcessingStatus == [trackId |-> TrackId, status |-> "processing"]

ReadyStatus ==
    [trackId |-> TrackId, status |-> "ready",
     drums |-> StemUrl["drums"], bass |-> StemUrl["bass"],
     vocals |-> StemUrl["vocals"], other |-> StemUrl["other"]]

ErrorStatus(e) == [trackId |-> TrackId, status |-> "error", error |-> e]

\* The exceptions a work cycle can raise, by their str(e).
DemucsFailed == "Demucs failed"
TimedOut == "timed out after 600 seconds"
NoSuchFile == "No such file or directory"
LoadFailed == "Error opening audio"
WriteFailed == "Error writing stem"

\* What Demucs leaves in its output folder when it exits with code 0.
DemucsOutputs == {Stems, Stems \ {"drums"}, Stems \ {"other"}}

\* get_stem_status: None when the file is absent, the parsed record otherwise;
\* json.load raises on a file that is empty or not one JSON object.
get_stem_status(file) ==
    IF ~file.exists THEN [kind |-> "none", val |-> <<>>]
    ELSE IF WellFormed(file.data) THEN [kind |-> "ok", val |-> Load(file.data)]
    ELSE [kind |-> "raise", val |-> <<>>]

\* The state a caller sees in the status file.
StateOf(file) ==
    LET s == get_stem_status(file)
    IN  IF s.kind = "none" THEN "pending"
        ELSE IF s.kind = "raise" THEN "unreadable"
        ELSE s.val["status"]

\* ------------------------------------------------------------------ requests
IdleReq ==
    [pc |-> "idle", route |-> "none", worker |-> 0, idx |-> 0, err |-> "none",
     resp |-> "none", started |-> FALSE, saw |-> "none"]

\* Positions inside a stretch of handler code that has no await: the
\* worker's event loop runs nothing else until the handler leaves them.
Blocking ==
    {"sep_exists", "sep_return", "mark_open", "mark_flush", "ml_run", "ml_check",
     "ml_rename", "fb_load", "fb_write", "ready_open", "ready_flush", "err_open",
     "err_flush"}

\* Positions of a separation work cycle (ML subprocess or fallback synthesis).
Working == {"ml_run", "ml_check", "ml_rename", "fb_load", "fb_write"}

\* The worker's event loop is free to run request r.
Free(r) ==
    \A r2 \in Reqs \ {r} :
        ~(req[r2].worker = req[r].worker /\ req[r2].pc \in Blocking)

Set(r, changes) == req' = [req EXCEPT ![r] = changes @@ req[r]]

Finish(r, answer) == Set(r, [pc |-> "done", resp |-> answer])

StemsInit ==
    /\ statusFile = NoFile
    /\ stemFiles = {}
    /\ demucsOut = {}
    /\ demucsInstalled \in BOOLEAN
    /\ tracksDb = {}
    /\ req = [r \in Reqs |-> IdleReq]
    /\ lastPoll = "none"

\* POST /upload on worker w: the worker's counter hands out the track id and
\* the track enters that worker's _tracks_db.
upload_track(w) ==
    /\ w \notin tracksDb
    /\ tracksDb' = tracksDb \cup {w}
    /\ UNCHANGED <<statusFile, stemFiles, demucsOut, demucsInstalled, req, lastPoll>>
    /\ UNCHANGED <<cacheFile, so, job, call, sc>>

\* A stem request reaches a worker through one of the two routes.
Arrive(r) ==
    /\ req[r].pc = "idle"
    /\ \E w \in Workers, rt \in {"tracks", "uploads"} :
          Set(r, [pc |-> IF rt = "tracks" THEN "t_check" ELSE "u_check",
                  route |-> rt, worker |-> w])
    /\ UNCHANGED <<statusFile, stemFiles, demucsOut, demucsInstalled, tracksDb, lastPoll>>
    /\ UNCHANGED <<cacheFile, so, job, call, sc>>

\* request_stems up to its await: return an existing ready or processing status.
request_stems_check(r) ==
    /\ req[r].pc = "t_check"
    /\ Free(r)
    /\ LET s == get_stem_status(statusFile)
       IN  IF s.kind = "raise" THEN Finish(r, "http500")
           ELSE IF s.kind = "ok" /\ s.val["status"] \in {"ready", "processing"}
                THEN Set(r, [pc |-> "done", resp |-> s.val["status"],
                             saw |-> s.val["status"]])
           ELSE Set(r, [pc |-> "download", saw |-> StateOf(statusFile)])
    /\ UNCHANGED <<statusFile, stemFiles, demucsOut, demucsInstalled, tracksDb, lastPoll>>
    /\ UNCHANGED <<cacheFile, so, job, call, sc>>

\* await download_audio_for_analysis: a path, or None and a 500.
request_stems_download(r) ==
    /\ req[r].pc = "download"
    /\ Free(r)
    /\ \/ Set(r, [pc |-> "sep_exists"])
       \/ Finish(r, "http500")
    /\ UNCHANGED <<statusFile, stemFiles, demucsOut, demucsInstalled, tracksDb, lastPoll>>
    /\ UNCHANGED <<cacheFile, so, job, call, sc>>

\* separate_track_stems up to the call of separate_stems: only ready returns.
separate_track_stems_check(r) ==
    /\ req[r].pc = "u_check"
    /\ Free(r)
    /\ LET s == get_stem_status(statusFile)
       IN  IF req[r].worker \notin tracksDb THEN Finish(r, "http404")
           ELSE IF s.kind = "raise" THEN Finish(r, "http500")
           ELSE IF s.kind = "ok" /\ s.val["status"] = "ready"
                THEN Set(r, [pc |-> "done", resp |-> "ready", saw |-> "ready"])
           ELSE Set(r, [pc |-> "sep_exists", saw |-> StateOf(statusFile)])
    /\ UNCHANGED <<statusFile, stemFiles, demucsOut, demucsInstalled, tracksDb, lastPoll>>
    /\ UNCHANGED <<cacheFile, so, job, call, sc>>

\* separate_stems: "if (stem_dir / 'drums.wav').exists()".
separate_stems_exists(r) ==
    /\ req[r].pc = "sep_exists"
    /\ Set(r, [pc |-> IF "drums" \in stemFiles THEN "sep_return" ELSE "mark_open"])
    /\ UNCHANGED <<statusFile, stemFiles, demucsOut, demucsInstalled, tracksDb, lastPoll>>
    /\ UNCHANGED <<cacheFile, so, job, call, sc>>

\* separate_stems: "return get_stem_status(track_id)"; an exception of the read
\* is answered by the route's except clause with an error that is not persisted.
separate_stems_return(r) ==
    /\ req[r].pc = "sep_return"
    /\ LET s == get_stem_status(statusFile)
       IN  IF s.kind = "ok" THEN Finish(r, s.val["status"])
           ELSE IF s.kind = "none" /\ req[r].route = "uploads" THEN Finish(r, "null")
           ELSE Finish(r, "error")
    /\ UNCHANGED <<statusFile, stemFiles, demucsOut, demucsInstalled, tracksDb, lastPoll>>
    /\ UNCHANGED <<cacheFile, so, job, call, sc>>

\* separate_stems: open(status_file, "w") for the processing record.
separate_stems_mark_open(r) ==
    /\ req[r].pc = "mark_open"
    /\ statusFile' = Truncate(statusFile)
    /\ Set(r, [pc |-> "mark_flush", started |-> TRUE])
    /\ UNCHANGED <<stemFiles, demucsOut, demucsInstalled, tracksDb, lastPoll>>
    /\ UNCHANGED <<cacheFile, so, job, call, sc>>

\* separate_stems: the processing record is written; the try block starts with
\* the import of demucs.
separate_stems_mark_flush(r) ==
    /\ req[r].pc = "mark_flush"
    /\ statusFile' = WriteAtZero(statusFile, Dump(StatusOrder, ProcessingStatus))
    /\ Set(r, [pc |-> IF demucsInstalled THEN "ml_run" ELSE "fb_load"])
    /\ UNCHANGED <<stemFiles, demucsOut, demucsInstalled, tracksDb, lastPoll>>
    /\ UNCHANGED <<cacheFile, so, job, call, sc>>

\* separate_stems: subprocess.run(cmd, timeout=600) and the returncode test.
separate_stems_run(r) ==
    /\ req[r].pc = "ml_run"
    /\ \/ /\ Set(r, [pc |-> "err_open", err |-> DemucsFailed])
          /\ UNCHANGED demucsOut
       \/ /\ Set(r, [pc |-> "err_open", err |-> TimedOut])
          /\ UNCHANGED demucsOut
       \/ /\ \E produced \in DemucsOutputs : demucsOut' = demucsOut \cup produced
          /\ Set(r, [pc |-> "ml_check", idx |-> 1])
    /\ UNCHANGED <<statusFile, stemFiles, demucsInstalled, tracksDb, lastPoll>>
    /\ UNCHANGED <<cacheFile, so, job, call, sc>>

\* Where the loop over the four stem names goes after stem number i.
AfterStem(i, again) == IF i < Len(StemNames) THEN again ELSE "ready_open"

\* separate_stems: "if src.exists()" for the current stem.
separate_stems_src_exists(r) ==
    /\ req[r].pc = "ml_check"
    /\ IF StemNames[req[r].idx] \in demucsOut
       THEN Set(r, [pc |-> "ml_rename"])
       ELSE Set(r, [pc |-> AfterStem(req[r].idx, "ml_check"),
                    idx |-> req[r].idx + 1])
    /\ UNCHANGED <<statusFile, stemFiles, demucsOut, demucsInstalled, tracksDb, lastPoll>>
    /\ UNCHANGED <<cacheFile, so, job, call, sc>>

\* separate_stems: "src.rename(dst)"; FileNotFoundError when the source is gone.
separate_stems_rename(r) ==
    /\ req[r].pc = "ml_rename"
    /\ LET s == StemNames[req[r].idx]
       IN  IF s \in demucsOut
           THEN /\ demucsOut' = demucsOut \ {s}
                /\ stemFiles' = stemFiles \cup {s}
                /\ Set(r, [pc |-> AfterStem(req[r].idx, "ml_check"),
                           idx |-> req[r].idx + 1])
           ELSE /\ Set(r, [pc |-> "err_open", err |-> NoSuchFile])
                /\ UNCHANGED <<demucsOut, stemFiles>>
    /\ UNCHANGED <<statusFile, demucsInstalled, tracksDb, lastPoll>>
    /\ UNCHANGED <<cacheFile, so, job, call, sc>>

\* create_pseudo_stems: librosa.load and the spectral filtering.
create_pseudo_stems_load(r) ==
    /\ req[r].pc = "fb_load"
    /\ \/ Set(r, [pc |-> "fb_write", idx |-> 1])
       \/ Set(r, [pc |-> "err_open", err |-> LoadFailed])
    /\ UNCHANGED <<statusFile, stemFiles, demucsOut, demucsInstalled, tracksDb, lastPoll>>
    /\ UNCHANGED <<cacheFile, so, job, call, sc>>

\* create_pseudo_stems: sf.write of the current stem, in the order drums, bass,
\* vocals, other.
create_pseudo_stems_write(r) ==
    /\ req[r].pc = "fb_write"
    /\ \/ /\ stemFiles' = stemFiles \cup {StemNames[req[r].idx]}
          /\ Set(r, [pc |-> AfterStem(req[r].idx, "fb_write"),
                     idx |-> req[r].idx + 1])
       \/ /\ Set(r, [pc |-> "err_open", err |-> WriteFailed])
          /\ UNCHANGED stemFiles
    /\ UNCHANGED <<statusFile, demucsOut, demucsInstalled, tracksDb, lastPoll>>
    /\ UNCHANGED <<cacheFile, so, job, call, sc>>

\* separate_stems: open(status_file, "w") for the ready record.
separate_stems_ready_open(r) ==
    /\ req[r].pc = "ready_open"
    /\ statusFile' = Truncate(statusFile)
    /\ Set(r, [pc |-> "ready_flush"])
    /\ UNCHANGED <<stemFiles, demucsOut, demucsInstalled, tracksDb, lastPoll>>
    /\ UNCHANGED <<cacheFile, so, job, call, sc>>

\* separate_stems: the ready record is written and returned.
separate_stems_ready_flush(r) ==
    /\ req[r].pc = "ready_flush"
    /\ statusFile' = WriteAtZero(statusFile, Dump(StatusOrder, ReadyStatus))
    /\ Finish(r, "ready")
    /\ UNCHANGED <<stemFiles, demucsOut, demucsInstalled, tracksDb, lastPoll>>
    /\ UNCHANGED <<cacheFile, so, job, call, sc>>

\* separate_stems, "except Exception as e": open(status_file, "w").
separate_stems_error_open(r) ==
    /\ req[r].pc = "err_open"
    /\ statusFile' = Truncate(statusFile)
    /\ Set(r, [pc |-> "err_flush"])
    /\ UNCHANGED <<stemFiles, demucsOut, demucsInstalled, tracksDb, lastPoll>>
    /\ UNCHANGED <<cacheFile, so, job, call, sc>>

\* Variant: the handler ends without writing the error record. C7 does not
\* hold of it.
separate_stems_error_dropped(r) ==
    /\ req[r].pc = "err_flush"
    /\ Finish(r, "error")
    /\ UNCHANGED <<statusFile, stemFiles, demucsOut, demucsInstalled, tracksDb, lastPoll>>
    /\ UNCHANGED <<cacheFile, so, job, call, sc>>

\* separate_stems, "except Exception as e": the error record is written and
\* returned.
separate_stems_error_flush(r) ==
    /\ req[r].pc = "err_flush"
    /\ statusFile' = WriteAtZero(statusFile, Dump(StatusOrder, ErrorStatus(req[r].err)))
    /\ Finish(r, "error")
    /\ UNCHANGED <<stemFiles, demucsOut, demucsInstalled, tracksDb, lastPoll>>
    /\ UNCHANGED <<cacheFile, so, job, call, sc>>

\* GET .../stems/status: pending when there is no record.
get_stem_status_route ==
    /\ lastPoll' = IF StateOf(statusFile) = "unreadable" THEN "http500"
                   ELSE StateOf(statusFile)
    /\ UNCHANGED <<statusFile, stemFiles, demucsOut, demucsInstalled, tracksDb, req>>
    /\ UNCHANGED <<cacheFile, so, job, call, sc>>

StemStep(r) ==
    \/ Arrive(r)
    \/ request_stems_check(r)
    \/ request_stems_download(r)
    \/ separate_track_stems_check(r)
    \/ separate_stems_exists(r)
    \/ separate_stems_return(r)
    \/ separate_stems_mark_open(r)
    \/ separate_stems_mark_flush(r)
    \/ separate_stems_run(r)
    \/ separate_stems_src_exists(r)
    \/ separate_stems_rename(r)
    \/ create_pseudo_stems_load(r)
    \/ create_pseudo_stems_write(r)
    \/ separate_stems_ready_open(r)
    \/ separate_stems_ready_flush(r)
    \/ separate_stems_error_open(r)
    \/ separate_stems_error_flush(r)

NextStems ==
    \/ \E r \in Reqs : StemStep(r)
    \/ \E w \in Workers : upload_track(w)
    \/ get_stem_status_route

InitStems == StemsInit /\ CacheEmpty /\ OrderIdle /\ JobsIdle /\ CallIdle /\ ScoreIdle

SpecStems == InitStems /\ [][NextStems]_vars

\* A playlist and a cache in which some of its tracks have been analyzed.
InitOrder ==
    /\ StemsInit
    /\ demucsInstalled = TRUE
    /\ cacheFile \in [TrackIds -> {NoFile} \cup {CachedFile(t) : t \in TrackIds}]
    /\ \A t \in TrackIds : cacheFile[t] \in {NoFile, CachedFile(t)}
    /\ JobsIdle /\ CallIdle /\ ScoreIdle
    /\ \E tracks \in Playlists :
          so = [pc |-> "start", tracks |-> tracks, order |-> <<>>, scores |-> <<>>,
                remaining |-> <<>>, current |-> <<>>, placed |-> <<>>,
                message |-> "none", calls |-> 0]

SpecOrder == InitOrder /\ [][NextOrder]_vars

\* GET /playlists/{id}/smart-order arrives for some playlist.
smart_order_request ==
    /\ so.pc = "idle"
    /\ \E tracks \in Playlists : so' = [so EXCEPT !.pc = "start", !.tracks = tracks]
    /\ UNCHANGED <<stemVars, cacheFile, job, call, sc>>

\* Every track but the last has been analyzed.
InitRequest ==
    /\ StemsInit
    /\ demucsInstalled = TRUE
    /\ cacheFile = [t \in TrackIds |-> IF t < NumTracks THEN CachedFile(t) ELSE NoFile]
    /\ OrderIdle /\ JobsIdle /\ CallIdle /\ ScoreIdle

NextRequest == smart_order_request \/ NextOrder

\* The handler is sequential code: a turn of the loop that can be taken is
\* taken, and so is the return after the loop.
FairOrder ==
    /\ InitRequest
    /\ [][NextRequest]_vars
    /\ WF_vars(smart_order_pick)
    /\ WF_vars(smart_order_return)

\* ------------------------------------------------------------------ analysis requests
\* Positions between which the handler has no await.
JobBlocking == {"analyze", "open", "write"}

JobFree(j) ==
    \A j2 \in Jobs \ {j} :
        ~(job[j2].worker = job[j].worker /\ job[j2].pc \in JobBlocking)

SetJob(j, changes) == job' = [job EXCEPT ![j] = changes @@ job[j]]

Answer(j, kind, val) == SetJob(j, [pc |-> "done", resp |-> [kind |-> kind, val |-> val]])

\* The audio a route analyzes under TrackId: the provider's track for the tracks
\* route, the first upload of the worker's own _tracks_db for the uploads route.
AudioOf(j) ==
    IF job[j].route = "analyze_uploaded_track" THEN Features[job[j].worker]
    ELSE Features[Len(Features)]

\* An analysis request reaches a worker.
JobArrive(j) ==
    /\ job[j].pc = "idle"
    /\ \E w \in Workers,
          rt \in {"get_analysis", "analyze_track", "analyze_uploaded_track"} :
          SetJob(j, [pc |-> rt, route |-> rt, worker |-> w])
    /\ UNCHANGED <<stemVars, cacheFile, so, call, sc>>

\* GET /tracks/{id}/analysis: the cached record, or 404.
get_analysis(j) ==
    /\ job[j].pc = "get_analysis"
    /\ JobFree(j)
    /\ LET cached == get_cached_analysis(cacheFile[TrackId])
       IN  IF cached.kind = "raise" THEN Answer(j, "raise", <<>>)
           ELSE IF ~Truthy(cached) THEN Answer(j, "http404", <<>>)
           ELSE Answer(j, "ok", cached.val)
    /\ UNCHANGED <<stemVars, cacheFile, so, call, sc>>

\* analyze_track up to its await: a cached record is returned as it is.
analyze_track_check(j) ==
    /\ job[j].pc = "analyze_track"
    /\ JobFree(j)
    /\ LET cached == get_cached_analysis(cacheFile[TrackId])
       IN  IF cached.kind = "raise" THEN Answer(j, "raise", <<>>)
           ELSE IF Truthy(cached) THEN Answer(j, "ok", cached.val)
           ELSE SetJob(j, [pc |-> "download"])
    /\ UNCHANGED <<stemVars, cacheFile, so, call, sc>>

\* await download_audio_for_analysis: a path, or None and a 500.
analyze_track_download(j) ==
    /\ job[j].pc = "download"
    /\ JobFree(j)
    /\ \/ SetJob(j, [pc |-> "analyze"])
       \/ Answer(j, "http500", <<>>)
    /\ UNCHANGED <<stemVars, cacheFile, so, call, sc>>

\* analyze_uploaded_track up to the analysis: 404 for a track this worker does
\* not hold, else a cached record is returned as it is.
analyze_uploaded_track_check(j) ==
    /\ job[j].pc = "analyze_uploaded_track"
    /\ JobFree(j)
    /\ LET cached == get_cached_analysis(cacheFile[TrackId])
       IN  IF job[j].worker \notin tracksDb THEN Answer(j, "http404", <<>>)
           ELSE IF cached.kind = "raise" THEN Answer(j, "raise", <<>>)
           ELSE IF Truthy(cached) THEN Answer(j, "ok", cached.val)
           ELSE SetJob(j, [pc |-> "analyze"])
    /\ UNCHANGED <<stemVars, cacheFile, so, call, sc>>

\* "result = analysis_service.analyze_audio(track_id, path)", inside the try.
analyze(j) ==
    /\ job[j].pc = "analyze"
    /\ IF analyze_audio_raises(AudioOf(j)) THEN Answer(j, "http500", <<>>)
       ELSE SetJob(j, [pc |-> "open", result |-> analyze_audio(TrackId, AudioOf(j))])
    /\ UNCHANGED <<stemVars, cacheFile, so, call, sc>>

\* cache_analysis: open(cache_path, "w").
cache_analysis_open(j) ==
    /\ job[j].pc = "open"
    /\ cacheFile' = [cacheFile EXCEPT ![TrackId] = Truncate(@)]
    /\ SetJob(j, [pc |-> "write", text |-> Dump(AnalysisOrder, job[j].result), off |-> 0])
    /\ UNCHANGED <<stemVars, so, call, sc>>

\* cache_analysis: json.dump fills the buffer, which is written out whenever
\* it is full and once more when the file is closed; the route then answers
\* with the result.
cache_analysis_write(j) ==
    /\ job[j].pc = "write"
    /\ LET n == Min(BufferCells, Len(job[j].text) - job[j].off)
           chunk == SubSeq(job[j].text, job[j].off + 1, job[j].off + n)
       IN  /\ cacheFile' = [cacheFile EXCEPT ![TrackId] = WriteAt(@, job[j].off, chunk)]
           /\ IF job[j].off + n = Len(job[j].text)
              THEN Answer(j, "ok", job[j].result)
              ELSE SetJob(j, [off |-> job[j].off + n])
    /\ UNCHANGED <<stemVars, so, call, sc>>

JobStep(j) ==
    \/ JobArrive(j)
    \/ get_analysis(j)
    \/ analyze_track_check(j)
    \/ analyze_track_download(j)
    \/ analyze_uploaded_track_check(j)
    \/ analyze(j)
    \/ cache_analysis_open(j)
    \/ cache_analysis_write(j)

NextCache ==
    \/ \E j \in Jobs : JobStep(j)
    \/ \E w \in Workers : upload_track(w)

InitCache == StemsInit /\ CacheEmpty /\ OrderIdle /\ JobsIdle /\ CallIdle /\ ScoreIdle

SpecCache == InitCache /\ [][NextCache]_vars

\* ------------------------------------------------------------------ the cache, called directly
\* Extractor outputs beyond Features: a steady tone, in which beat_track finds
\* no onset and reports tempo 0 and no beats; a file librosa cannot decode.
ZeroTempo == Feature(<<0>>, <<>>, 0, TRUE, 400, <<400, 300>>, 10000)
Undecodable == [Features[1] EXCEPT !.undecodable = TRUE]
Audios == {Features[1], Features[2], ZeroTempo, Undecodable}

\* The writes of one uninterrupted cache_analysis after its open: the text
\* goes out buffer by buffer.
RECURSIVE WriteChunks(_, _, _)
WriteChunks(file, text, off) ==
    IF off >= Len(text) THEN file
    ELSE LET n == Min(BufferCells, Len(text) - off)
         IN  WriteChunks(WriteAt(file, off, SubSeq(text, off + 1, off + n)), text, off + n)

\* cache_analysis run from open to close with nothing in between.
cache_analysis(file, analysis) ==
    WriteChunks(Truncate(file), Dump(AnalysisOrder, analysis), 0)

\* cache_analysis(t, r) for a record r the builder made.
store_put(t) ==
    /\ \E audio \in Audios :
          /\ ~analyze_audio_raises(audio)
          /\ LET r == analyze_audio(t, audio)
             IN  /\ cacheFile' = [cacheFile EXCEPT ![t] = cache_analysis(@, r)]
                 /\ call' = [route |-> "cache_analysis", track |-> t, other |-> 0,
                             audio |-> audio,
                             prev |-> get_cached_analysis(cacheFile[t]),
                             resp |-> [kind |-> "ok", val |-> r]]
    /\ UNCHANGED <<stemVars, so, job, sc>>

\* get_cached_analysis(t).
store_get(t) ==
    /\ call' = [route |-> "get_cached_analysis", track |-> t, other |-> 0,
                audio |-> <<>>, prev |-> NoResponse,
                resp |-> get_cached_analysis(cacheFile[t])]
    /\ UNCHANGED <<stemVars, cacheFile, so, job, sc>>

NextStore ==
    \/ \E t \in TrackIds : store_put(t)
    \/ \E t \in TrackIds : store_get(t)

InitStore == StemsInit /\ demucsInstalled = TRUE /\ CacheEmpty /\ OrderIdle /\ JobsIdle /\ CallIdle /\ ScoreIdle

SpecStore == InitStore /\ [][NextStore]_vars

\* ------------------------------------------------------------------ requests served one at a time
Respond(kind, val) == [kind |-> kind, val |-> val]

\* The analyze routes from "Check cache first" on, for a cache miss with the
\* audio at hand: <<the file afterwards, the response>>. An exception of
\* analyze_audio or cache_analysis becomes the 500 "Analysis failed".
AnalyzeAndCache(file, t, audio) ==
    IF analyze_audio_raises(audio) THEN <<file, Respond("http500", <<>>)>>
    ELSE <<cache_analysis(file, analyze_audio(t, audio)),
           Respond("ok", analyze_audio(t, audio))>>

\* GET /tracks/{t}/analysis.
serve_get_analysis(t) ==
    /\ LET cached == get_cached_analysis(cacheFile[t])
       IN  call' = [route |-> "get_analysis", track |-> t, other |-> 0, audio |-> <<>>,
                    prev |-> cached,
                    resp |-> IF cached.kind = "raise" THEN Respond("raise", <<>>)
                             ELSE IF ~Truthy(cached) THEN Respond("http404", <<>>)
                             ELSE cached]
    /\ UNCHANGED <<stemVars, cacheFile, so, job, sc>>

\* POST /tracks/{t}/analyze: the cached record if there is one; else the
\* download, which may fail, the analysis and the put.
serve_analyze_track(t) ==
    /\ LET cached == get_cached_analysis(cacheFile[t])
       IN  \E audio \in Audios \cup {<<>>} :
              LET ran == cached.kind = "none" /\ audio # <<>>
                  out == IF cached.kind = "raise" THEN <<cacheFile[t], Respond("raise", <<>>)>>
                         ELSE IF Truthy(cached) THEN <<cacheFile[t], cached>>
                         ELSE IF audio = <<>>
                         THEN <<cacheFile[t], Respond("http500", <<>>)>>
                         ELSE AnalyzeAndCache(cacheFile[t], t, audio)
              IN  /\ cacheFile' = [cacheFile EXCEPT ![t] = out[1]]
                  /\ call' = [route |-> "analyze_track", track |-> t, other |-> 0,
                              audio |-> IF ran THEN audio ELSE <<>>,
                              prev |-> cached, resp |-> out[2]]
    /\ UNCHANGED <<stemVars, so, job, sc>>

\* POST /uploads/tracks/{t}/analyze on worker w: 404 unless the worker holds
\* the track; the cached record if there is one; else the analysis and the put.
serve_analyze_uploaded_track(t, w) ==
    /\ LET cached == get_cached_analysis(cacheFile[t])
           known == t = TrackId /\ w \in tracksDb
       IN  \E audio \in Audios :
              LET ran == known /\ cached.kind = "none"
                  out == IF ~known THEN <<cacheFile[t], Respond("http404", <<>>)>>
                         ELSE IF cached.kind = "raise"
                         THEN <<cacheFile[t], Respond("raise", <<>>)>>
                         ELSE IF Truthy(cached) THEN <<cacheFile[t], cached>>
                         ELSE AnalyzeAndCache(cacheFile[t], t, audio)
              IN  /\ cacheFile' = [cacheFile EXCEPT ![t] = out[1]]
                  /\ call' = [route |-> "analyze_uploaded_track", track |-> t,
                              other |-> 0, audio |-> IF ran THEN audio ELSE <<>>,
                              prev |-> cached, resp |-> out[2]]
    /\ UNCHANGED <<stemVars, so, job, sc>>

\* GET /tracks/compatibility?track_a=a&track_b=b: both records are read, then
\* 404 for the first that is missing, else the mix compatibility.
serve_get_compatibility(a, b) ==
    /\ LET analysis_a == get_cached_analysis(cacheFile[a])
           analysis_b == get_cached_analysis(cacheFile[b])
       IN  call' = [route |-> "get_compatibility", track |-> a, other |-> b,
                    audio |-> <<>>, prev |-> analysis_a,
                    resp |-> IF "raise" \in {analysis_a.kind, analysis_b.kind}
                             THEN Respond("raise", <<>>)
                             ELSE IF ~Truthy(analysis_a) THEN Respond("http404", a)
                             ELSE IF ~Truthy(analysis_b) THEN Respond("http404", b)
                             ELSE Respond("ok", calculate_mix_compatibility(
                                                    analysis_a.val, analysis_b.val))]
    /\ UNCHANGED <<stemVars, cacheFile, so, job, sc>>

\* The track ids the requests name.
NumRequested == 2
RequestedIds == 1..NumRequested

NextRoutes ==
    \/ \E t \in RequestedIds : serve_get_analysis(t)
    \/ \E t \in RequestedIds : serve_analyze_track(t)
    \/ \E t \in RequestedIds, w \in Workers : serve_analyze_uploaded_track(t, w)
    \/ \E a, b \in RequestedIds : serve_get_compatibility(a, b)
    \/ \E w \in Workers : upload_track(w)

\* Each cache file is absent, or was opened for writing by a process that
\* stopped before it wrote.
InitRoutes ==
    /\ StemsInit
    /\ demucsInstalled = TRUE
    /\ cacheFile \in [TrackIds -> {NoFile, Truncate(NoFile)}]
    /\ \A t \in TrackIds \ RequestedIds : cacheFile[t] = NoFile
    /\ OrderIdle /\ JobsIdle /\ CallIdle /\ ScoreIdle

SpecRoutes == InitRoutes /\ [][NextRoutes]_vars

\* ------------------------------------------------------------------ the scorer, called directly
\* The analysis values the scorer is called with: BPM in tenths, key names of
\* CAMELOT_MAP, energy in thousandths.
ScoreBpms == {640, 1010, 1210, 1280, 1292, 1340}
ScoreKeys ==
    {KeyName(<<"A">>, Minor), KeyName(<<"E">>, Minor), KeyName(<<"F">>, Minor),
     KeyName(<<"C">>, Major), KeyName(<<"G">>, Major), KeyName(<<"F", "#">>, Major)}
ScoreEnergies == {200, 400, 560, 800, 1000}

\* The pairs the scorer is called with: every pair over ScoreKeys, and each
\* analysis of any key with itself.
\* Energies for a sweep of the energy change from -1 to 1 through every row of
\* the energy table.
SweepEnergies == {0, 40, 110, 200, 330, 400, 450, 560, 680, 800, 930, 1000}

\* Two analyses that differ in key only, over every pair of key names, and two
\* that differ in energy only, over every pair of SweepEnergies.
SweepPairs ==
    {<<[bpm |-> 1280, key |-> ka, energy |-> 400],
       [bpm |-> 1280, key |-> kb, energy |-> 400]>> : ka, kb \in KeyNames}
      \cup {<<[bpm |-> 1280, key |-> KeyName(<<"A">>, Minor), energy |-> ea],
              [bpm |-> 1280, key |-> KeyName(<<"A">>, Minor), energy |-> eb]>> :
                 ea, eb \in SweepEnergies}

\* The pairs the scorer is called with: every pair over ScoreKeys, each
\* analysis of any key with itself, and the sweeps.
ScorePairs ==
    LET over(keys) == [bpm : ScoreBpms, key : keys, energy : ScoreEnergies]
    IN  (over(ScoreKeys) \X over(ScoreKeys)) \cup {<<x, x>> : x \in over(KeyNames)}
          \cup SweepPairs

\* calculate_compatibility_score(a, b), as smart ordering calls it.
score_tracks ==
    /\ sc.pc = "input"
    /\ sc' = [sc EXCEPT !.pc = "scored",
                        !.score = calculate_compatibility_score(sc.a, sc.b)]
    /\ UNCHANGED <<stemVars, cacheFile, so, job, call>>

\* calculate_mix_compatibility(a, b), as the compatibility route calls it.
mix_tracks ==
    /\ sc.pc = "scored"
    /\ sc' = [sc EXCEPT !.pc = "mixed", !.mix = calculate_mix_compatibility(sc.a, sc.b)]
    /\ UNCHANGED <<stemVars, cacheFile, so, job, call>>

NextScore == score_tracks \/ mix_tracks

InitScore ==
    /\ StemsInit
    /\ demucsInstalled = TRUE
    /\ CacheEmpty /\ OrderIdle /\ JobsIdle /\ CallIdle
    /\ \E pair \in ScorePairs :
          sc = [pc |-> "input", a |-> pair[1], b |-> pair[2], score |-> 0, mix |-> <<>>]

SpecScore == InitScore /\ [][NextScore]_vars

\* ------------------------------------------------------------------ the record builder, called directly
\* Extractor outputs by size: up to MaxBeats beats and an RMS curve of up to
\* MaxBuckets frames.
MaxBeats == 9
MaxBuckets == 4

\* Beats 469 ms apart from 120 ms on; RMS frames at three levels, none of
\* which is 0.3 or 0.6 of another.
Extracted ==
    {Feature(<<1280>>, [i \in 1..n |-> 120 + 469 * (i - 1)], 9, FALSE, 500, rms, 100000) :
        n \in 0..MaxBeats,
        rms \in UNION {[1..m -> {100, 700, 1000}] : m \in 1..MaxBuckets}}

\* analyze_audio(track_id, path) on a decoded file.
build_record ==
    /\ call.route = "extract"
    /\ call' = [call EXCEPT !.route = "analyze_audio",
                            !.resp = Respond("ok", analyze_audio(call.track, call.audio))]
    /\ UNCHANGED <<stemVars, cacheFile, so, job, sc>>

InitAnalyze ==
    /\ StemsInit
    /\ demucsInstalled = TRUE
    /\ CacheEmpty /\ OrderIdle /\ JobsIdle /\ ScoreIdle
    /\ \E f \in Extracted :
          call = [route |-> "extract", track |-> TrackId, other |-> 0, audio |-> f,
                  prev |-> NoResponse, resp |-> NoResponse]

SpecAnalyze == InitAnalyze /\ [][build_record]_vars

\* The handler steps of request r that the worker runs without a new request
\* arriving: a runnable handler is eventually run, and the subprocess ends by
\* its timeout at the latest.
Progress(r) ==
    \/ request_stems_check(r)
    \/ request_stems_download(r)
    \/ separate_track_stems_check(r)
    \/ separate_stems_exists(r)
    \/ separate_stems_return(r)
    \/ separate_stems_mark_open(r)
    \/ separate_stems_mark_flush(r)
    \/ separate_stems_run(r)
    \/ separate_stems_src_exists(r)
    \/ separate_stems_rename(r)
    \/ create_pseudo_stems_load(r)
    \/ create_pseudo_stems_write(r)
    \/ separate_stems_ready_open(r)
    \/ separate_stems_ready_flush(r)
    \/ separate_stems_error_open(r)
    \/ separate_stems_error_flush(r)

\* The pipeline on its own, every worker holding its uploaded track: requests
\* arrive when they will, and a handler that can take a step eventually does.
InitPipeline ==
    /\ statusFile = NoFile
    /\ stemFiles = {}
    /\ demucsOut = {}
    /\ demucsInstalled \in BOOLEAN
    /\ tracksDb = Workers
    /\ req = [r \in Reqs |-> IdleReq]
    /\ lastPoll = "none"
    /\ CacheEmpty /\ OrderIdle /\ JobsIdle /\ CallIdle /\ ScoreIdle

NextPipeline == \E r \in Reqs : StemStep(r)

FairStems ==
    /\ InitPipeline
    /\ [][NextPipeline]_vars
    /\ \A r \in Reqs : WF_vars(Progress(r))

\* ------------------------------------------------------------------ claims: stems

\* C1: at most one separation work cycle of the track is in flight at any time.
C1_AtMostOneCycleInFlight ==
    Cardinality({r \in Reqs : req[r].pc \in Working}) <= 1

\* C3: a request that finds the persisted status Error restarts the cycle; it
\* never answers with the old Error without having persisted Processing.
C3_ErrorRestartsCycle ==
    \A r \in Reqs :
        (req[r].saw = "error" /\ req[r].pc = "done" /\ req[r].resp = "error")
            => req[r].started

\* C4: once the persisted status is Ready, no step moves it out of Ready.
C4_ReadyIsTerminal ==
    [][StateOf(statusFile) = "ready" => StateOf(statusFile)' = "ready"]_vars

\* C5: whenever the persisted status is Ready, all four stem files exist.
C5_ReadyHasFourStems ==
    StateOf(statusFile) = "ready" => stemFiles = Stems

\* C6: a work cycle that fails ends with the persisted status Error carrying
\* the captured message, and the request makes no further attempt.
C6_FailureEndsInError ==
    [][\A r \in Reqs :
          /\ (req[r].pc \in {"err_open", "err_flush"})
                => req[r].pc' \in {"err_open", "err_flush", "done"}
          /\ (req[r].pc = "err_flush" /\ req[r].pc' = "done")
                => /\ get_stem_status(statusFile').kind = "ok"
                   /\ get_stem_status(statusFile').val = ErrorStatus(req[r].err)
          /\ req[r].pc = "done" => req[r].pc' = "done"]_vars

\* C7: a persisted Processing is eventually followed by a persisted Ready or
\* Error.
C7_ProcessingEnds ==
    (StateOf(statusFile) = "processing") ~> (StateOf(statusFile) \in {"ready", "error"})

\* C7 witness: a request that persisted Processing has finished its cycle and
\* the persisted status is Ready or Error.
C7_Witness ==
    /\ StateOf(statusFile) \in {"ready", "error"}
    /\ \E r \in Reqs : req[r].started /\ req[r].pc = "done"

\* C8: a persisted status record has state processing, ready or error; it
\* carries the four stem references exactly when ready and an error message
\* exactly when error.
C8_StatusRecordShape ==
    LET s == get_stem_status(statusFile)
    IN  s.kind = "ok" =>
            /\ s.val["status"] \in {"processing", "ready", "error"}
            /\ (s.val["status"] = "ready") <=> (Stems \subseteq DOMAIN s.val)
            /\ (s.val["status"] # "ready") => (Stems \cap DOMAIN s.val = {})
            /\ (s.val["status"] = "error") <=> ("error" \in DOMAIN s.val)

\* C8 witness: a retry after a failed cycle has written its processing record
\* and is at work.
C8_Witness ==
    /\ StateOf(statusFile) = "processing"
    /\ \E r \in Reqs : req[r].saw = "error" /\ req[r].pc \in Working


\* The playlist positions whose track has a usable cached analysis, and the
\* entry the orderer holds for such a position.
AnalyzedPositions ==
    {i \in 1..Len(so.tracks) : Truthy(get_cached_analysis(cacheFile[so.tracks[i]]))}

EntryAt(i) ==
    [track_id |-> so.tracks[i],
     analysis |-> get_cached_analysis(cacheFile[so.tracks[i]]).val,
     pos |-> i]

EdgeScore(i, j) == calculate_compatibility_score(EntryAt(i).analysis, EntryAt(j).analysis)

\* C9: with two or more analyzed tracks the walk starts at the first analyzed
\* track of the playlist, and every later entry is, among the analyzed tracks
\* not yet placed, one with the highest score(current, candidate), current being
\* the entry placed just before it and passed as the first argument; among
\* candidates with that same highest score it is the one earliest in the
\* playlist.
C9_GreedyStepPicksBestEarliest ==
    (so.pc \in {"loop", "done"} /\ Cardinality(AnalyzedPositions) >= 2) =>
        /\ Len(so.placed) >= 1
        /\ Len(so.order) = Len(so.placed)
        /\ \A n \in 1..Len(so.placed) : so.order[n] = so.tracks[so.placed[n]]
        /\ \A i \in AnalyzedPositions : so.placed[1] <= i
        /\ so.placed[1] \in AnalyzedPositions
        /\ \A n \in 2..Len(so.placed) :
              LET current == so.placed[n - 1]
                  chosen == so.placed[n]
                  candidates == AnalyzedPositions \ {so.placed[m] : m \in 1..(n - 1)}
              IN  /\ chosen \in candidates
                  /\ \A c \in candidates :
                        /\ EdgeScore(current, c) <= EdgeScore(current, chosen)
                        /\ EdgeScore(current, c) = EdgeScore(current, chosen) => chosen <= c

\* C9 witness: a finished walk over three analyzed tracks in which the second
\* pick had two candidates of equal score and the first pick skipped an earlier
\* track for a later, better one.
C9_Witness ==
    /\ so.pc = "done"
    /\ Len(so.placed) >= 3
    /\ \E n \in 2..Len(so.placed) :
          \E c \in AnalyzedPositions \ {so.placed[m] : m \in 1..n} :
              EdgeScore(so.placed[n - 1], c) = EdgeScore(so.placed[n - 1], so.placed[n])
    /\ \E n \in 2..Len(so.placed) :
          \E c \in AnalyzedPositions \ {so.placed[m] : m \in 1..n} :
              /\ c < so.placed[n]
              /\ EdgeScore(so.placed[n - 1], c) < EdgeScore(so.placed[n - 1], so.placed[n])

\* C10: when fewer than two tracks of the playlist have a cached analysis the
\* answer is the playlist's own order, unchanged and complete, with an empty
\* scores map and the "Not enough tracks analyzed for smart ordering" note,
\* and the scorer has not been called.
C10_TooFewAnalyzedKeepsOrder ==
    (so.pc = "done" /\ Cardinality(AnalyzedPositions) < 2) =>
        /\ so.order = so.tracks
        /\ so.scores = <<>>
        /\ so.message = "Not enough tracks analyzed for smart ordering"
        /\ so.calls = 0

\* C10 witness: a three-track playlist with exactly one analyzed track has been
\* answered.
C10_Witness ==
    /\ so.pc = "done"
    /\ so.message = "Not enough tracks analyzed for smart ordering"
    /\ Len(so.tracks) = 3
    /\ Cardinality(AnalyzedPositions) = 1

\* The records the analysis routes can write for TrackId.
CompleteRecords == {analyze_audio(TrackId, Features[k]) : k \in 1..Len(Features)}

\* C2: a read of the cache returns absence or a complete record that was put,
\* never an empty or partly written one, and never fails because a write is
\* under way; and when no write is under way the file, if there is one, holds
\* exactly one complete record.
C2_CacheAtomic ==
    /\ \A j \in Jobs :
          (job[j].pc = "done" /\ job[j].route = "get_analysis") =>
              \/ job[j].resp.kind = "http404"
              \/ job[j].resp.kind = "ok" /\ job[j].resp.val \in CompleteRecords
    /\ (\A j \in Jobs : job[j].pc \notin {"open", "write"}) =>
          \/ ~cacheFile[TrackId].exists
          \/ \E rec \in CompleteRecords :
                cacheFile[TrackId].data = Dump(AnalysisOrder, rec)
\* ------------------------------------------------------------------ claims: C11..C20

\* C11: with k >= 2 analyzed tracks the answer has an order of k elements and
\* a scores map of exactly k - 1 entries, one per consecutive pair of the
\* order, each the score of that pair.
C11_OneEdgeScorePerStep ==
    (so.pc = "done" /\ Cardinality(AnalyzedPositions) >= 2) =>
        /\ Len(so.order) = Cardinality(AnalyzedPositions)
        /\ Cardinality(DOMAIN so.scores) = Len(so.order) - 1
        /\ \A n \in 1..(Len(so.order) - 1) :
              /\ <<so.order[n], so.order[n + 1]>> \in DOMAIN so.scores
              /\ so.scores[<<so.order[n], so.order[n + 1]>>]
                    = EdgeScore(so.placed[n], so.placed[n + 1])

\* C12: a put of record r under an id, whatever the file held before, leaves a
\* file from which get returns r, equal in every field, and leaves the files
\* of the other ids as they were; a get changes no file.
C12_PutThenGetRoundTrips ==
    [][/\ call'.route = "cache_analysis" =>
            /\ get_cached_analysis(cacheFile'[call'.track])
                  = [kind |-> "ok", val |-> call'.resp.val]
            /\ \A t \in TrackIds \ {call'.track} : cacheFile'[t] = cacheFile[t]
       /\ call'.route = "get_cached_analysis" =>
            /\ cacheFile' = cacheFile
            /\ call'.resp = get_cached_analysis(cacheFile[call'.track])]_vars

\* C12 witness: a shorter record has just replaced a longer, different one
\* while another id holds a record.
C12_Witness ==
    /\ call.route = "cache_analysis"
    /\ call.prev.kind = "ok"
    /\ call.prev.val # call.resp.val
    /\ Len(Dump(AnalysisOrder, call.prev.val)) > Len(Dump(AnalysisOrder, call.resp.val))
    /\ \E t \in TrackIds \ {call.track} : cacheFile[t].exists
\* C13: a persisted record that cannot be read is a miss: reading it does not
\* fail (get_analysis answers 404, not an exception), and an analyze request
\* on it recomputes and leaves the recomputed record in the cache.
C13_MalformedIsMiss ==
    (call.route \in {"get_analysis", "analyze_track", "analyze_uploaded_track"}
        /\ call.prev.kind = "raise")
    => /\ call.resp.kind # "raise"
       /\ call.route # "get_analysis" /\ call.audio # <<>> /\ ~call.audio.undecodable
             => get_cached_analysis(cacheFile[call.track]) = call.resp

\* C14: an analyze request whose audio cannot be decoded is answered with the
\* failure (500), writes nothing to the cache, and leaves what get_analysis
\* reports for the track as it was before the request.
C14_FailedAnalyzeLeavesCache ==
    [][(/\ call'.route \in {"analyze_track", "analyze_uploaded_track"}
        /\ call'.audio # <<>>
        /\ call'.audio.undecodable)
       => /\ call'.resp.kind = "http500"
          /\ cacheFile' = cacheFile
          /\ get_cached_analysis(cacheFile'[call'.track]) = call'.prev]_vars

\* A failed analyze of undecodable audio while another track is cached.
C14_Witness ==
    /\ call.route \in {"analyze_track", "analyze_uploaded_track"}
    /\ call.audio # <<>> /\ call.audio.undecodable
    /\ call.resp.kind = "http500"
    /\ \E t \in RequestedIds \ {call.track} : Truthy(get_cached_analysis(cacheFile[t]))

\* C15: a compatibility request is answered NotAnalyzed (404) whenever either
\* track has no cached analysis that can be read, whatever the cache holds and
\* in either argument order, with the cache left as it was; it is answered
\* with a score exactly when both tracks have one.
C15_NotAnalyzedUnlessBothCached ==
    call.route = "get_compatibility" =>
        LET cached(t) == /\ cacheFile[t].exists
                         /\ WellFormed(cacheFile[t].data)
                         /\ DOMAIN Load(cacheFile[t].data) # {}
        IN  IF cached(call.track) /\ cached(call.other)
            THEN call.resp.kind = "ok"
            ELSE call.resp.kind = "http404"

\* C16: every cached analysis record has a BPM above zero and an energy in
\* [0, 1] (thousandths: 0..1000); a tempo of zero never reaches the cache.
C16_CachedRecordsInRange ==
    \A t \in TrackIds :
        Truthy(get_cached_analysis(cacheFile[t])) =>
            /\ get_cached_analysis(cacheFile[t]).val.bpm > 0
            /\ get_cached_analysis(cacheFile[t]).val.energy \in 0..1000

\* C17: an analysis scored against itself, whatever its BPM, key and energy,
\* has an overall score of at least 95, from either entry point of the scorer.
C17_SelfScoreAtLeast95 ==
    (sc.pc = "mixed" /\ sc.a = sc.b) => (sc.score >= 95 /\ sc.mix.score >= 95)

\* A self-comparison in a major key at the lowest BPM and highest energy.
C17_Witness ==
    /\ sc.pc = "mixed" /\ sc.a = sc.b
    /\ sc.a.key = KeyName(<<"A", "b">>, Major) /\ sc.a.bpm = 640 /\ sc.a.energy = 1000
    /\ sc.score = 100

\* C18, as stated: whenever b's energy is at least 0.15 above a's, the score
\* of (a, b) differs from the score of (b, a).
C18_DirectionalFromDelta ==
    (sc.pc = "mixed" /\ sc.b.energy - sc.a.energy >= 150) =>
        sc.mix.score # calculate_mix_compatibility(sc.b, sc.a).score

\* C18, amended: for two analyses of equal BPM where b's energy is at least
\* 0.15 and less than 0.3 above a's, the score of (a, b) is higher than the
\* score of (b, a), from either entry point of the scorer.
C18_DirectionalModerateRise ==
    (/\ sc.pc = "mixed"
     /\ sc.a.bpm = sc.b.bpm
     /\ sc.b.energy - sc.a.energy >= 150
     /\ sc.b.energy - sc.a.energy < 300) =>
        /\ sc.mix.score > calculate_mix_compatibility(sc.b, sc.a).score
        /\ sc.score > calculate_compatibility_score(sc.b, sc.a)

\* A moderate rise in energy between two keys at the same BPM.
C18_Witness ==
    /\ sc.pc = "mixed"
    /\ sc.a.bpm = sc.b.bpm /\ sc.a.key # sc.b.key
    /\ sc.b.energy - sc.a.energy = 160
    /\ sc.mix.energyFlow = 85
    /\ calculate_mix_compatibility(sc.b, sc.a).energyFlow = 70

\* C19: the overall score is the weighted sum 0.4 * bpm + 0.35 * key +
\* 0.25 * energy of the sub-scores rounded to the nearest integer, from either
\* entry point of the scorer.
C19_OverallIsRounded ==
    sc.pc = "mixed" =>
        LET d == sc.b.bpm
            sum == BpmPart(sc.a.bpm, d)
                     + d * (35 * KeyScore(sc.a.key, sc.b.key)
                              + 25 * EnergyScore(sc.a.energy, sc.b.energy))
        IN  /\ sc.mix.score = RoundDiv(40 * sc.mix.bpmMatch + 35 * sc.mix.keyMatch
                                           + 25 * sc.mix.energyFlow, 100)
            /\ sc.score = RoundDiv(sum, 100 * d)

\* C20: the BPM sub-score the scorer returns (bpmMatch) is the score of the
\* table: 100, 95, 85 or 70 by the size of diff = |1 - a.bpm / b.bpm| * 100,
\* 80 in half or double time, and otherwise exactly max(10, 50 - diff), that
\* is bpmMatch * b.bpm = max(10 * b.bpm, 50 * b.bpm - 100 * |b.bpm - a.bpm|).
C20_BpmSubScoreFollowsTable ==
    sc.pc = "mixed" =>
        LET a == sc.a.bpm
            b == sc.b.bpm
        IN  IF BpmTier(a, b) # 0 THEN sc.mix.bpmMatch = BpmTier(a, b)
            ELSE sc.mix.bpmMatch * b = Max(10 * b, 50 * b - 100 * Abs(b - a))

\* ------------------------------------------------------------------ claims: C21..C30
\* The Camelot number and letter of a key name.
PositionOf(key) == CAMELOT_MAP(normalize_key(key))

\* The distance around the twelve numbers of the wheel, counted step by step.
WheelSteps(m, n) ==
    CHOOSE d \in 0..6 : (m - n - d) % 12 = 0 \/ (n - m - d) % 12 = 0

\* C21: the key sub-score is 100 for the identical position, 80 for the same
\* number in the other mode, 90 at wheel distance 1 in the same mode, 65 at
\* distance 1 in the other mode, 55 at distance 2, and max(20, 50 - 5 *
\* distance) beyond, never below 20; two keys adjacent in the same mode with
\* equal BPM and energy score at least 75 overall.
C21_KeyScoreFollowsTiers ==
    sc.pc = "mixed" =>
        LET pa == PositionOf(sc.a.key)
            pb == PositionOf(sc.b.key)
            d == WheelSteps(pa[1], pb[1])
            tier == IF pa = pb THEN 100
                    ELSE IF d = 0 THEN 80
                    ELSE IF d = 1 /\ pa[2] = pb[2] THEN 90
                    ELSE IF d = 1 THEN 65
                    ELSE IF d = 2 THEN 55
                    ELSE IF 50 - 5 * d > 20 THEN 50 - 5 * d ELSE 20
        IN  /\ sc.mix.keyMatch = tier
            /\ sc.mix.keyMatch >= 20
            /\ (d = 1 /\ pa[2] = pb[2] /\ sc.a.bpm = sc.b.bpm /\ sc.a.energy = sc.b.energy)
                  => (sc.mix.score >= 75 /\ sc.score >= 75)

\* Two keys opposite on the wheel (distance 6), in different modes.
C21_Witness ==
    /\ sc.pc = "mixed"
    /\ WheelSteps(PositionOf(sc.a.key)[1], PositionOf(sc.b.key)[1]) = 6
    /\ PositionOf(sc.a.key)[2] # PositionOf(sc.b.key)[2]
    /\ sc.mix.keyMatch = 20

\* C22: the energy sub-score of delta = b.energy - a.energy (thousandths) is
\* 100 for a rise below 0.15, 95 for a fall below 0.1, 85 for a rise from 0.15
\* to below 0.3, 80 for a fall from 0.1 to 0.15, 70 for a fall above 0.15 and
\* below 0.3, 55 for a change from 0.3 to below 0.5, 40 beyond; none is
\* above the 100 of the slight rise.
C22_EnergyScoreFollowsTable ==
    sc.pc = "mixed" =>
        LET delta == sc.b.energy - sc.a.energy
            size == IF delta < 0 THEN -delta ELSE delta
        IN  /\ (0 <= delta /\ delta < 150) => sc.mix.energyFlow = 100
            /\ (-100 < delta /\ delta < 0) => sc.mix.energyFlow = 95
            /\ (150 <= delta /\ delta < 300) => sc.mix.energyFlow = 85
            /\ (-150 <= delta /\ delta <= -100) => sc.mix.energyFlow = 80
            /\ (-300 < delta /\ delta < -150) => sc.mix.energyFlow = 70
            /\ (300 <= size /\ size < 500) => sc.mix.energyFlow = 55
            /\ 500 <= size => sc.mix.energyFlow = 40
            /\ sc.mix.energyFlow <= 100

\* A slight rise of 0.05, which the test for a similar energy would also match.
C22_Witness ==
    /\ sc.pc = "mixed"
    /\ sc.b.energy - sc.a.energy = 50
    /\ sc.mix.energyFlow = 100

\* C23: the recommendation depends on the overall score alone: the "Perfect
\* match" text from 90, "Great mix" from 80, "Good mix" from 70, "Challenging
\* mix" from 60, "Difficult mix" from 50, "Not recommended" below; so a score
\* below 60 carries one of the last two.
C23_RecommendationByOverall ==
    sc.pc = "mixed" =>
        LET overall == sc.mix.score
            text == sc.mix.recommendation
        IN  /\ overall >= 90
                 <=> text = "Perfect match! These tracks will blend seamlessly."
            /\ (80 <= overall /\ overall < 90)
                 <=> text = "Great mix! Minor adjustments may be needed."
            /\ (70 <= overall /\ overall < 80)
                 <=> text = "Good mix. Consider tempo sync and EQ adjustments."
            /\ (60 <= overall /\ overall < 70)
                 <=> text = "Challenging mix. Use longer transition or different technique."
            /\ (50 <= overall /\ overall < 60)
                 <=> text = "Difficult mix. Consider using a bridge track."
            /\ overall < 50 <=> text = "Not recommended. These tracks may clash."

\* An overall score on a threshold: exactly 90, a perfect match.
C23_Witness ==
    /\ sc.pc = "mixed"
    /\ sc.mix.score = 90
    /\ sc.mix.recommendation = "Perfect match! These tracks will blend seamlessly."

\* C24: for every pair of well-formed analyses the scorer returns a result
\* with all its fields, and bpmMatch, keyMatch, energyFlow and the overall
\* score of both entry points lie in 0..100.
C24_ScoresInRange ==
    sc.pc = "mixed" =>
        /\ DOMAIN sc.mix = {"score", "bpmMatch", "keyMatch", "energyFlow", "recommendation"}
        /\ sc.mix.bpmMatch \in 0..100
        /\ sc.mix.keyMatch \in 0..100
        /\ sc.mix.energyFlow \in 0..100
        /\ sc.mix.score \in 0..100
        /\ sc.score \in 0..100

\* A pair more than 50 percent apart in BPM, outside half and double time.
C24_Witness ==
    /\ sc.pc = "mixed"
    /\ 100 * (sc.a.bpm - sc.b.bpm) > 50 * sc.b.bpm
    /\ sc.mix.bpmMatch = 10

\* C25: the wheel distance the scorer takes between the positions of two keys
\* is the same in both directions, is 0 between a position and itself, and
\* lies in 0..6.
C25_DistanceSymmetricBounded ==
    sc.pc = "mixed" =>
        LET m == PositionOf(sc.a.key)[1]
            n == PositionOf(sc.b.key)[1]
        IN  /\ CamelotDistance(m, n) = CamelotDistance(n, m)
            /\ CamelotDistance(m, m) = 0 /\ CamelotDistance(n, n) = 0
            /\ CamelotDistance(m, n) \in 0..6
            /\ CamelotDistance(m, n) = WheelSteps(m, n)

\* The two ends of the numbering, 12 and 1, one step apart around the wheel.
C25_Witness ==
    /\ sc.pc = "mixed"
    /\ PositionOf(sc.a.key)[1] = 12 /\ PositionOf(sc.b.key)[1] = 1
    /\ PositionOf(sc.a.key)[2] = PositionOf(sc.b.key)[2]
    /\ sc.mix.keyMatch = 90

\* The roots with two spellings: <<sharp, flat>>.
EnharmonicRoots ==
    { << <<"A", "#">>, <<"B", "b">> >>, << <<"C", "#">>, <<"D", "b">> >>,
      << <<"D", "#">>, <<"E", "b">> >>, << <<"F", "#">>, <<"G", "b">> >>,
      << <<"G", "#">>, <<"A", "b">> >> }

\* C26: the sharp and the flat spelling of a key (A#/Bb, C#/Db, D#/Eb, F#/Gb,
\* G#/Ab, minor or major) have the same Camelot position, with a number in
\* 1..12 and the letter A for minor, B for major; two tracks in the two
\* spellings of one key get keyMatch 100.
C26_EnharmonicSamePosition ==
    sc.pc = "mixed" =>
        \A pair \in EnharmonicRoots, mode \in {Minor, Major} :
            (sc.a.key = KeyName(pair[1], mode) /\ sc.b.key = KeyName(pair[2], mode)) =>
                /\ PositionOf(sc.a.key) = PositionOf(sc.b.key)
                /\ PositionOf(sc.a.key)[1] \in 1..12
                /\ PositionOf(sc.a.key)[2] = (IF mode = Minor THEN "A" ELSE "B")
                /\ sc.mix.keyMatch = 100
                /\ calculate_mix_compatibility(sc.b, sc.a).keyMatch = 100

\* G# major against Ab major.
C26_Witness ==
    /\ sc.pc = "mixed"
    /\ sc.a.key = KeyName(<<"G", "#">>, Major) /\ sc.b.key = KeyName(<<"A", "b">>, Major)
    /\ PositionOf(sc.a.key) = <<2, "B">>
    /\ sc.mix.keyMatch = 100

\* C27: for every pair of analyses the score smart ordering computes,
\* calculate_compatibility_score(a, b), equals the score the compatibility
\* route returns, calculate_mix_compatibility(a, b)["score"].
C27_EntryPointsAgree ==
    sc.pc = "mixed" => sc.score = sc.mix.score

\* C28: with k >= 2 analyzed playlist entries the greedy loop ends, after k - 1
\* selections (k * (k - 1) / 2 candidate scores), and the order it returns
\* holds each analyzed entry of the playlist exactly once and no entry
\* without an analysis.
C28_LoopEndsWithPermutation ==
    /\ (so.pc = "loop") ~> (so.pc = "done")
    /\ [](so.pc = "done" /\ Cardinality(AnalyzedPositions) >= 2 =>
            LET k == Cardinality(AnalyzedPositions)
            IN  /\ Len(so.order) = k
                /\ Len(so.placed) = k
                /\ {so.placed[n] : n \in 1..k} = AnalyzedPositions
                /\ \A n \in 1..k : so.order[n] = so.tracks[so.placed[n]]
                /\ so.calls = (k * (k - 1)) \div 2
                /\ so.remaining = <<>>)

\* A returned order over a playlist with an entry that has no analysis and
\* in which the second selection was not the first candidate left.
C28_Witness ==
    /\ so.pc = "done"
    /\ Cardinality(AnalyzedPositions) >= 3
    /\ Cardinality(AnalyzedPositions) < Len(so.tracks)
    /\ \E n \in 1..(Len(so.placed) - 1) : so.placed[n] > so.placed[n + 1]

\* C29: the downbeats of the built record are the beats at indices 0, 4, 8,
\* ... of the extractor's beat sequence, the first 50 of them, also when
\* there are fewer than four beats; each downbeat is among the record's beats.
C29_DownbeatsEveryFourth ==
    call.route = "analyze_audio" =>
        LET beat_times == call.audio.beat_times
            grid == call.resp.val.beatGrid
            count == (Len(beat_times) + 3) \div 4
            kept == IF count > 50 THEN 50 ELSE count
        IN  /\ grid.downbeats = [j \in 1..kept |-> beat_times[4 * (j - 1) + 1]]
            /\ \A j \in 1..Len(grid.downbeats) :
                  \E i \in 1..Len(grid.beats) : grid.beats[i] = grid.downbeats[j]

\* C30: the drops of the built record are the times (i / len) * duration of
\* the indices i, 0 <= i < len - 1, at which the normalised energy curve is
\* below 0.3 and above 0.6 at i + 1, the first bucket included, in
\* increasing order, the first 10 of them.
C30_DropsAtEveryRisingEdge ==
    call.route = "analyze_audio" =>
        LET curve == call.resp.val.energyCurve
            len == Len(curve)
            rising == {i \in 0..(len - 2) : curve[i + 1] < 300 /\ curve[i + 2] > 600}
            times == Pick([i \in 1..len |-> RoundDiv((i - 1) * call.audio.duration, len)],
                          {i + 1 : i \in rising}, 1)
        IN  call.resp.val.drops = SubSeq(times, 1, IF Len(times) > 10 THEN 10 ELSE Len(times))

====
